---- MODULE Spec2Model ----
(***************************************************************************)
(* Model of src/webscraper_dfimoveis_final.py: the DF Imoveis crawl.       *)
(*                                                                         *)
(* The script opens a browser session, warms it up on the home page,       *)
(* fetches listing pages 1, 2, ... while pagina_atual <= MAX_PAGINAS,      *)
(* extracts one dictionary per listing container, closes the browser in a  *)
(* finally block and then writes the accumulated list to a CSV file.       *)
(*                                                                         *)
(* Strings are sequences of one-character strings, so that str.strip,      *)
(* str.startswith and the f-string concatenations are computed as Python   *)
(* computes them.  A value that BeautifulSoup may fail to find is an       *)
(* optional: None (the empty tuple) or Some(x) (the one-element tuple).    *)
(***************************************************************************)
EXTENDS Integers, Sequences, FiniteSets, TLC

(***************************************************************************)
(* Bounds of the model.                                                    *)
(***************************************************************************)
\* The page ceiling.  The script sets 350 (line 41); the model checks the
\* same loop with a small ceiling.
MAX_PAGINAS == 3

\* The most listing containers the site serves over one run, all pages
\* taken together.
MaxAnuncios == 4

(***************************************************************************)
(* Configuration (lines 33-37).                                            *)
(***************************************************************************)
URL_BASE ==
  <<"h", "t", "t", "p", "s", ":", "/", "/", "w", "w", "w", ".", "d", "f",
    "i", "m", "o", "v", "e", "i", "s", ".", "c", "o", "m", ".", "b", "r",
    "/", "a", "l", "u", "g", "u", "e", "l", "/", "d", "f", "/", "t", "o",
    "d", "o", "s", "/", "i", "m", "o", "v", "e", "i", "s">>

HOME_PAGE ==
  <<"h", "t", "t", "p", "s", ":", "/", "/", "w", "w", "w", ".", "d", "f",
    "i", "m", "o", "v", "e", "i", "s", ".", "c", "o", "m", ".", "b", "r",
    "/">>

(***************************************************************************)
(* Optionals and Python string operations.                                 *)
(***************************************************************************)
None == <<>>
Some(x) == <<x>>

\* The characters str.strip() removes when called without argument: the
\* characters c with c.isspace().  In the order written below: space,
\* \t, \n, \r, \f (U+000C), U+000B, U+001C, U+001D, U+001E, U+001F, U+0085,
\* U+00A0 (the &nbsp; of rendered prices) and U+1680.  Python strips the
\* spaces U+2000..U+200A, U+2028, U+2029, U+202F, U+205F and U+3000 as
\* well; a TLA+ string cannot hold them, so no text of the model does.
Whitespace ==
  {" ", "\t", "\n", "\r", "\f", "", "", "", "", "", "",
   " ", " "}

RECURSIVE lstrip(_, _)
lstrip(s, chars) ==
  IF s # <<>> /\ Head(s) \in chars THEN lstrip(Tail(s), chars) ELSE s

RECURSIVE rstrip(_, _)
rstrip(s, chars) ==
  IF s # <<>> /\ s[Len(s)] \in chars
  THEN rstrip(SubSeq(s, 1, Len(s) - 1), chars)
  ELSE s

\* str.strip(chars): every leading and every trailing character of chars.
strip(s, chars) == rstrip(lstrip(s, chars), chars)

\* str.startswith for a one-character prefix.
startswith(s, ch) == s # <<>> /\ Head(s) = ch

Digit == <<"0", "1", "2", "3", "4", "5", "6", "7", "8", "9">>

\* The decimal text an f-string gives a non-negative integer.
RECURSIVE str(_)
str(n) ==
  IF n < 10 THEN <<Digit[n + 1]>> ELSE str(n \div 10) \o <<Digit[(n % 10) + 1]>>

NA == <<"N", "/", "A">>

(***************************************************************************)
(* The markup of a listing container, as the extraction reads it.          *)
(*   preco     the text of <p class="property-list__price">, if any        *)
(*   endereco  the text of <p class="property-list__address">, if any      *)
(*   link      the href of the first <a href=...>, if any                  *)
(*   features  <ul class="property-list__features">, if any: for each      *)
(*             title, the text of the first <li title=...>, if any         *)
(***************************************************************************)
FeatureNames == {"Area util", "Quartos", "Suites", "Vagas"}

\* The text of each feature item as the site renders it, padding included.
TextoFeature ==
  [n \in FeatureNames |->
     CASE n = "Area util" -> <<" ", "8", "0", "m", " ">>
       [] n = "Quartos"   -> <<"3">>
       [] n = "Suites"    -> <<"1", " ">>
       [] n = "Vagas"     -> <<"\f", "2", "">>]

\* The second price is padded with U+00A0 and \r.
Precos == {<<" ", "R", "$", "9", " ">>, <<" ", "R", "$", "7", "\r">>}

Enderecos == {<<" ", "S", "Q", "S", "\n">>}

\* Root-relative, protocol-relative, absolute-like and empty hrefs.
Links == {<<"/", "a">>, <<"/", "/", "a">>, <<"h", ":", "/", "b">>, <<>>}

Opt(S) == {None} \cup {Some(x) : x \in S}

\* A features list holds each of the four items or not: sixteen lists.
FeaturesLists ==
  {f \in [FeatureNames -> {None} \cup {Some(TextoFeature[n]) : n \in FeatureNames}] :
     \A n \in FeatureNames : f[n] \in {None, Some(TextoFeature[n])}}

\* Every container the extraction is applied to.
Anuncios ==
  [preco : Opt(Precos), endereco : Opt(Enderecos), link : Opt(Links),
   features : Opt(FeaturesLists)]

TodasFeatures == [n \in FeatureNames |-> Some(TextoFeature[n])]

SoQuartos == [n \in FeatureNames |-> IF n = "Quartos" THEN Some(TextoFeature[n]) ELSE None]

\* The containers the crawl's pages are made of: two well-formed ones with
\* different content, and one for each way a container can be incomplete.
Bom1 ==
  [preco |-> Some(<<" ", "R", "$", "9", " ">>), endereco |-> Some(<<" ", "S", "Q", "S", "\n">>),
   link |-> Some(<<"/", "a">>), features |-> Some(TodasFeatures)]

Bom2 ==
  [preco |-> Some(<<" ", "R", "$", "7", "\r">>), endereco |-> Some(<<" ", "S", "Q", "S", "\n">>),
   link |-> Some(<<"h", ":", "/", "b">>), features |-> Some(SoQuartos)]

SemPreco == [Bom1 EXCEPT !.preco = None]

SemEndereco == [Bom2 EXCEPT !.endereco = None]

SemLink == [Bom1 EXCEPT !.link = None]

SemFeatures == [Bom2 EXCEPT !.features = None]

AnunciosCrawl == {Bom1, Bom2, SemPreco, SemEndereco, SemLink, SemFeatures}

\* All sequences over S of length at most n.
SeqAte(S, n) == UNION {[1..m -> S] : m \in 0..n}

(***************************************************************************)
(* Extraction of one container (lines 110-141).                            *)
(***************************************************************************)
\* The join without the strip of the home page's trailing slash.
url_completa_sem_strip(link) ==
  IF startswith(link, "/") THEN HOME_PAGE \o link ELSE link

\* Line 115: url_completa.
url_completa(link) ==
  IF startswith(link, "/") THEN strip(HOME_PAGE, {"/"}) \o link ELSE link

\* Lines 120-123.  features_list is the optional <ul>; calling .find on
\* None raises AttributeError.
get_feature(features_list, feature_name) ==
  IF features_list = None
  THEN [exc |-> "AttributeError", val |-> <<>>]
  ELSE LET tag == features_list[1][feature_name]
       IN  [exc |-> "none",
            val |-> IF tag # None THEN strip(tag[1], Whitespace) ELSE NA]

Levanta(e) == [exc |-> e, imovel |-> None]

\* Lines 112-134: the dictionary built from one container, or the exception
\* the attempt raises.  find() returns None for an absent element: None.text
\* raises AttributeError (lines 112, 113), None['href'] raises TypeError
\* (line 114).
extrair(anuncio) ==
  IF anuncio.preco = None THEN Levanta("AttributeError")
  ELSE IF anuncio.endereco = None THEN Levanta("AttributeError")
  ELSE IF anuncio.link = None THEN Levanta("TypeError")
  ELSE
    LET preco    == strip(anuncio.preco[1], Whitespace)
        endereco == strip(anuncio.endereco[1], Whitespace)
        link     == anuncio.link[1]
        area     == get_feature(anuncio.features, "Area util")
        quartos  == get_feature(anuncio.features, "Quartos")
        suites   == get_feature(anuncio.features, "Suites")
        vagas    == get_feature(anuncio.features, "Vagas")
    IN  IF area.exc # "none" THEN Levanta(area.exc)
        ELSE IF quartos.exc # "none" THEN Levanta(quartos.exc)
        ELSE IF suites.exc # "none" THEN Levanta(suites.exc)
        ELSE IF vagas.exc # "none" THEN Levanta(vagas.exc)
        ELSE [exc |-> "none",
              imovel |-> Some([preco_anuncio |-> preco, endereco |-> endereco,
                               area_util_m2 |-> area.val, quartos |-> quartos.val,
                               suites |-> suites.val, vagas |-> vagas.val,
                               url |-> url_completa(link)])]

\* The list built by insertion at the front.
append_na_frente(lista, imovel) == <<imovel>> \o lista

\* Line 136: dados_gerais_imoveis.append(imovel).
append(lista, imovel) == Append(lista, imovel)

(***************************************************************************)
(* The CSV file (lines 156-161): a header and one row per dictionary, the  *)
(* columns in the order of the dictionary's keys, no index column.         *)
(***************************************************************************)
Colunas ==
  <<"preco_anuncio", "endereco", "area_util_m2", "quartos", "suites", "vagas", "url">>

linha(imovel) ==
  <<imovel.preco_anuncio, imovel.endereco, imovel.area_util_m2, imovel.quartos,
    imovel.suites, imovel.vagas, imovel.url>>

to_csv(dados) ==
  [header |-> Colunas, rows |-> [i \in 1..Len(dados) |-> linha(dados[i])]]

\* A file left at the target path by an earlier run.
ArquivoAntigo == [header |-> Colunas, rows |-> <<<<NA, NA, NA, NA, NA, NA, NA>>>>]

(***************************************************************************)
(* The state of a run.                                                     *)
(***************************************************************************)
VARIABLES
  pc,                    \* where the script is
  pagina_atual,          \* line 68
  dados_gerais_imoveis,  \* line 67
  lista_anuncios,        \* line 99: the containers of the page being extracted
  idx,                   \* position of the for loop of line 109 in lista_anuncios
  exc,                   \* the exception propagating, "none" if none
  driver,                \* "open" or "quit": the browser session
  arquivo_csv,           \* the file at NOME_ARQUIVO_BRUTO: None or Some(contents)
  relatorio,             \* the final report printed: "", "SUCESSO" or "AVISO"
  \* History of the run, read by the properties only.
  navegacoes,            \* the URLs given to driver.get, in order
  pausas,                \* the time.sleep calls, in order: "aquecimento" or "pagina"
  paginas,               \* the container lists of the listing pages fetched
  marcas,                \* Len(dados_gerais_imoveis) when each page was fetched
  avisos,                \* warnings printed by line 140
  quit_calls,            \* calls of driver.quit
  navs_ao_sair,          \* Len(navegacoes) when driver.quit was called
  persist_calls,         \* executions of the block of lines 153-167
  motivo,                \* how the while loop was left: "", "vazia", "limite" or "erro"
  arquivo_inicial        \* the file at the target path when the run started

vars ==
  <<pc, pagina_atual, dados_gerais_imoveis, lista_anuncios, idx, exc, driver,
    arquivo_csv, relatorio, navegacoes, pausas, paginas, marcas, avisos,
    quit_calls, navs_ao_sair, persist_calls, motivo, arquivo_inicial>>

\* Containers served so far, over all pages.
RECURSIVE Total(_)
Total(ps) == IF ps = <<>> THEN 0 ELSE Len(Head(ps)) + Total(Tail(ps))

\* The state after line 68: session open, nothing collected, page 1 next.
InitComum ==
  /\ pagina_atual = 1
  /\ dados_gerais_imoveis = <<>>
  /\ exc = "none"
  /\ driver = "open"
  /\ arquivo_inicial \in {None, Some(ArquivoAntigo)}
  /\ arquivo_csv = arquivo_inicial
  /\ relatorio = ""
  /\ avisos = 0
  /\ quit_calls = 0
  /\ navs_ao_sair = 0
  /\ persist_calls = 0
  /\ motivo = ""

Init ==
  /\ InitComum
  /\ pc = "aquecimento"
  /\ lista_anuncios = <<>>
  /\ idx = 1
  /\ navegacoes = <<>>
  /\ pausas = <<>>
  /\ paginas = <<>>
  /\ marcas = <<>>

\* The crawl without the finally clause: a raised exception ends the script.
ao_levantar_sem_finally == "failed"

\* Where control goes when a statement inside the try block raises: the
\* finally clause (lines 73, 146).
ao_levantar == "finally"

\* The loop test off by one.
condicao_while_mais_um(p) == p <= MAX_PAGINAS + 1

\* The loop written as `while True`.
condicao_while_true(p) == TRUE

\* Line 81.
condicao_while(p) == p <= MAX_PAGINAS

\* The query parameter given to page 1 too.
url_da_pagina_sempre_query(p) ==
  URL_BASE \o <<"?", "p", "a", "g", "i", "n", "a", "=">> \o str(p)

\* Line 83.
url_da_pagina(p) ==
  IF p > 1 THEN URL_BASE \o <<"?", "p", "a", "g", "i", "n", "a", "=">> \o str(p)
  ELSE URL_BASE

\* The stop test written as `lista_anuncios is None`: find_all never
\* returns None.
condicao_de_parada_is_none(lista) == FALSE

\* Line 102: not lista_anuncios.
condicao_de_parada(lista) == lista = <<>>

\* The crawl with the exception swallowed: Part 5 runs after every exit.
apos_finally_sempre_persiste(e) == "persist"

\* Lines 146-153: after the finally clause a propagating exception goes on
\* propagating and ends the script; otherwise the script goes on to Part 5.
apos_finally(e) == IF e = "none" THEN "persist" ELSE "failed"

\* The loop without its pause.
pausa_da_pagina_omitida(ps) == ps

\* Lines 90-92: time.sleep(random.uniform(4, 8)), right after driver.get.
pausa_da_pagina(ps) == Append(ps, "pagina")

\* The crawl started without the visit to the home page.
aquecer_omitido(navs) == navs

\* Line 77: driver.get(HOME_PAGE).
aquecer(navs) == Append(navs, HOME_PAGE)

\* Lines 77-78: driver.get(HOME_PAGE) returns, then the warm-up pause.
Aquecimento ==
  /\ pc = "aquecimento"
  /\ navegacoes' = aquecer(navegacoes)
  /\ pausas' = Append(pausas, "aquecimento")
  /\ pc' = "while"
  /\ UNCHANGED <<pagina_atual, dados_gerais_imoveis, lista_anuncios, idx, exc,
                 driver, arquivo_csv, relatorio, paginas, marcas, avisos,
                 quit_calls, navs_ao_sair, persist_calls, motivo, arquivo_inicial>>

\* Line 77: driver.get(HOME_PAGE) raises.
AquecimentoFalha ==
  /\ pc = "aquecimento"
  /\ navegacoes' = aquecer(navegacoes)
  /\ exc' = "WebDriverException"
  /\ motivo' = "erro"
  /\ pc' = ao_levantar
  /\ UNCHANGED <<pagina_atual, dados_gerais_imoveis, lista_anuncios, idx, driver,
                 arquivo_csv, relatorio, pausas, paginas, marcas, avisos,
                 quit_calls, navs_ao_sair, persist_calls, arquivo_inicial>>

\* Line 81: the loop test.
While ==
  /\ pc = "while"
  /\ IF condicao_while(pagina_atual)
     THEN pc' = "get" /\ motivo' = motivo
     ELSE pc' = "finally" /\ motivo' = "limite"
  /\ UNCHANGED <<pagina_atual, dados_gerais_imoveis, lista_anuncios, idx, exc,
                 driver, arquivo_csv, relatorio, navegacoes, pausas, paginas,
                 marcas, avisos, quit_calls, navs_ao_sair, persist_calls,
                 arquivo_inicial>>

\* driver.get calls of the crawl loop (the warm-up navigation not counted).
NumFetches == Cardinality({i \in 1..Len(navegacoes) : navegacoes[i] # HOME_PAGE})

\* The model follows a run for MAX_PAGINAS + 1 fetches at most, one more
\* than the loop of line 81 lets the script make.
FetchModelado == NumFetches <= MAX_PAGINAS

\* Lines 83-106: driver.get(url_da_pagina) returns a page with the
\* containers `pagina`; the pause; the parse; the stop test.
Get(pagina) ==
  /\ pc = "get"
  /\ FetchModelado
  /\ navegacoes' = Append(navegacoes, url_da_pagina(pagina_atual))
  /\ pausas' = pausa_da_pagina(pausas)
  /\ lista_anuncios' = pagina
  /\ paginas' = Append(paginas, pagina)
  /\ marcas' = Append(marcas, Len(dados_gerais_imoveis))
  /\ idx' = 1
  /\ IF condicao_de_parada(pagina)
     THEN pc' = "finally" /\ motivo' = "vazia"
     ELSE pc' = "for" /\ motivo' = motivo
  /\ UNCHANGED <<pagina_atual, dados_gerais_imoveis, exc, driver, arquivo_csv,
                 relatorio, avisos, quit_calls, navs_ao_sair, persist_calls,
                 arquivo_inicial>>

\* Line 86: driver.get(url_da_pagina) raises.
GetFalha ==
  /\ pc = "get"
  /\ FetchModelado
  /\ navegacoes' = Append(navegacoes, url_da_pagina(pagina_atual))
  /\ exc' = "WebDriverException"
  /\ motivo' = "erro"
  /\ pc' = ao_levantar
  /\ UNCHANGED <<pagina_atual, dados_gerais_imoveis, lista_anuncios, idx, driver,
                 arquivo_csv, relatorio, pausas, paginas, marcas, avisos,
                 quit_calls, navs_ao_sair, persist_calls, arquivo_inicial>>

\* Line 95: driver.page_source raises, after the navigation and the pause.
PageSourceFalha ==
  /\ pc = "get"
  /\ FetchModelado
  /\ navegacoes' = Append(navegacoes, url_da_pagina(pagina_atual))
  /\ pausas' = pausa_da_pagina(pausas)
  /\ exc' = "WebDriverException"
  /\ motivo' = "erro"
  /\ pc' = ao_levantar
  /\ UNCHANGED <<pagina_atual, dados_gerais_imoveis, lista_anuncios, idx, driver,
                 arquivo_csv, relatorio, paginas, marcas, avisos, quit_calls,
                 navs_ao_sair, persist_calls, arquivo_inicial>>

\* Lines 109-141: one iteration of the for loop.  AttributeError is caught by
\* line 137 (warning, next container); any other exception leaves the loops.
For ==
  /\ pc = "for"
  /\ idx <= Len(lista_anuncios)
  /\ LET r == extrair(lista_anuncios[idx])
     IN  CASE r.exc = "none" ->
                /\ dados_gerais_imoveis' = append(dados_gerais_imoveis, r.imovel[1])
                /\ idx' = idx + 1
                /\ UNCHANGED <<avisos, exc, pc, motivo>>
           [] r.exc = "AttributeError" ->
                /\ avisos' = avisos + 1
                /\ idx' = idx + 1
                /\ UNCHANGED <<dados_gerais_imoveis, exc, pc, motivo>>
           [] OTHER ->
                /\ exc' = r.exc
                /\ motivo' = "erro"
                /\ pc' = ao_levantar
                /\ UNCHANGED <<dados_gerais_imoveis, avisos, idx>>
  /\ UNCHANGED <<pagina_atual, lista_anuncios, driver, arquivo_csv, relatorio,
                 navegacoes, pausas, paginas, marcas, quit_calls, navs_ao_sair,
                 persist_calls, arquivo_inicial>>

\* The index advanced by two.
incremento_duplo(p) == p + 2

\* Line 144: pagina_atual += 1.
incremento(p) == p + 1

\* Line 144, after the last container of the page.
ProximaPagina ==
  /\ pc = "for"
  /\ idx > Len(lista_anuncios)
  /\ pagina_atual' = incremento(pagina_atual)
  /\ pc' = "while"
  /\ UNCHANGED <<dados_gerais_imoveis, lista_anuncios, idx, exc, driver,
                 arquivo_csv, relatorio, navegacoes, pausas, paginas, marcas,
                 avisos, quit_calls, navs_ao_sair, persist_calls, motivo,
                 arquivo_inicial>>

\* Lines 146-149: driver.quit(), which is taken to return.
Finally ==
  /\ pc = "finally"
  /\ driver' = "quit"
  /\ quit_calls' = quit_calls + 1
  /\ navs_ao_sair' = Len(navegacoes)
  /\ pc' = apos_finally(exc)
  /\ UNCHANGED <<pagina_atual, dados_gerais_imoveis, lista_anuncios, idx, exc,
                 arquivo_csv, relatorio, navegacoes, pausas, paginas, marcas,
                 avisos, persist_calls, motivo, arquivo_inicial>>

\* The write made whatever was collected.
condicao_persist_sempre(dados) == TRUE

\* Line 153: if dados_gerais_imoveis.
condicao_persist(dados) == dados # <<>>

\* Lines 153-167.
Persist ==
  /\ pc = "persist"
  /\ persist_calls' = persist_calls + 1
  /\ IF condicao_persist(dados_gerais_imoveis)
     THEN arquivo_csv' = Some(to_csv(dados_gerais_imoveis)) /\ relatorio' = "SUCESSO"
     ELSE arquivo_csv' = arquivo_csv /\ relatorio' = "AVISO"
  /\ pc' = "done"
  /\ UNCHANGED <<pagina_atual, dados_gerais_imoveis, lista_anuncios, idx, exc,
                 driver, navegacoes, pausas, paginas, marcas, avisos, quit_calls,
                 navs_ao_sair, motivo, arquivo_inicial>>

Next ==
  \/ Aquecimento
  \/ AquecimentoFalha
  \/ While
  \/ \E pagina \in SeqAte(AnunciosCrawl, MaxAnuncios - Total(paginas)) : Get(pagina)
  \/ GetFalha
  \/ PageSourceFalha
  \/ For
  \/ ProximaPagina
  \/ Finally
  \/ Persist

Spec == Init /\ [][Next]_vars

\* The script is one sequential thread: while a statement is left to run,
\* one runs (every navigation and every pause returns or raises).
\* For termination a container counts by the outcome of its extraction:
\* one that gives a record, one that is skipped, one that raises.
AnunciosTerminacao == {Bom1, SemPreco, SemLink}

NextFair ==
  \/ Aquecimento
  \/ AquecimentoFalha
  \/ While
  \/ \E pagina \in SeqAte(AnunciosTerminacao, MaxAnuncios - Total(paginas)) : Get(pagina)
  \/ GetFalha
  \/ PageSourceFalha
  \/ For
  \/ ProximaPagina
  \/ Finally
  \/ Persist

FairSpec == Init /\ [][NextFair]_vars /\ WF_vars(NextFair)

(***************************************************************************)
(* The extraction alone: the script at line 109 of the first page, the     *)
(* page holding one container, any container of Anuncios.                  *)
(***************************************************************************)
InitExtract ==
  /\ InitComum
  /\ pc = "for"
  /\ \E a \in Anuncios : lista_anuncios = <<a>>
  /\ idx = 1
  /\ navegacoes = <<HOME_PAGE, url_da_pagina(1)>>
  /\ pausas = <<"aquecimento", "pagina">>
  /\ paginas = <<lista_anuncios>>
  /\ marcas = <<0>>

SpecExtract == InitExtract /\ [][For]_vars

(***************************************************************************)
(* Vocabulary of the properties.                                           *)
(***************************************************************************)
\* The script has ended: normally, or by an exception that left it.
Terminou == pc \in {"done", "failed"}

\* The records page k added to dados_gerais_imoveis.
RegistrosDaPagina(k) ==
  SubSeq(dados_gerais_imoveis, marcas[k] + 1,
         IF k < Len(marcas) THEN marcas[k + 1] ELSE Len(dados_gerais_imoveis))

\* The container has every element the extraction looks for directly.
Completo(a) ==
  a.preco # None /\ a.endereco # None /\ a.link # None /\ a.features # None

NumCompletos(pagina) == Cardinality({j \in 1..Len(pagina) : Completo(pagina[j])})

\* The for loop of page k is over.
PaginaPercorrida(k) == k < Len(paginas) \/ pc # "for"

\* The one container of SpecExtract has been through the for loop's body.
Extraido == pc # "for" \/ idx > Len(lista_anuncios)

(***************************************************************************)
(* C1.  The session is released exactly once in every run, however it      *)
(* ends, and nothing is navigated to after the release: driver.quit is     *)
(* never called twice, a run that has ended has called it once, and the    *)
(* list of navigations is the one it was when driver.quit was called.      *)
(***************************************************************************)
C1_QuitExactlyOnce ==
  /\ quit_calls <= 1
  /\ Terminou => quit_calls = 1 /\ driver = "quit"
  /\ quit_calls = 0 => driver = "open"
  /\ quit_calls >= 1 => Len(navegacoes) = navs_ao_sair

\* A container without link raised TypeError out of the extraction of the
\* second page, and the session was released.
C1_Witness ==
  /\ pc = "failed"
  /\ exc = "TypeError"
  /\ Len(paginas) = 2
  /\ quit_calls = 1

(***************************************************************************)
(* C2.  The crawl loop never issues more than MAX_PAGINAS fetches, failed  *)
(* ones included, and pagina_atual never exceeds MAX_PAGINAS + 1.          *)
(***************************************************************************)
C2_FetchCeiling ==
  /\ NumFetches <= MAX_PAGINAS
  /\ pagina_atual <= MAX_PAGINAS + 1

\* The loop was left by the ceiling after MAX_PAGINAS fetches.
C2_Witness ==
  /\ motivo = "limite"
  /\ NumFetches = MAX_PAGINAS
  /\ pagina_atual = MAX_PAGINAS + 1

(***************************************************************************)
(* C3.  On a page holding a container without price or without address,    *)
(* that container adds no record, a warning is printed, every complete     *)
(* container of the page adds its record, and the crawl goes on to the     *)
(* next page.                                                              *)
(***************************************************************************)
C3_MalformedSkippedSiblingsKept ==
  Terminou =>
    \A k \in 1..Len(paginas) :
      (\E i \in 1..Len(paginas[k]) :
         paginas[k][i].preco = None \/ paginas[k][i].endereco = None)
      => /\ Len(RegistrosDaPagina(k)) = NumCompletos(paginas[k])
         /\ avisos >= 1
         /\ pagina_atual > k

(***************************************************************************)
(* C4.  A container without link adds no record, its failure never leaves  *)
(* the crawl loop, and every complete container of the page adds its       *)
(* record.                                                                 *)
(***************************************************************************)
C4_MissingLinkRecovered ==
  /\ exc # "TypeError"
  /\ Terminou =>
       \A k \in 1..Len(paginas) :
         (\E i \in 1..Len(paginas[k]) : paginas[k][i].link = None)
         => /\ Len(RegistrosDaPagina(k)) = NumCompletos(paginas[k])
            /\ pagina_atual > k

(***************************************************************************)
(* C5.  Under SpecExtract.  A container with price, address and link       *)
(* yields exactly one record whatever optional features cannot be located, *)
(* the features list itself included, with "N/A" in exactly the fields of  *)
(* the missing features and the stripped text in the others.               *)
(***************************************************************************)
\* The text each feature item shows, without its padding.
TextoLimpo ==
  [n \in FeatureNames |->
     CASE n = "Area util" -> <<"8", "0", "m">>
       [] n = "Quartos"   -> <<"3">>
       [] n = "Suites"    -> <<"1">>
       [] n = "Vagas"     -> <<"2">>]

Campo(imovel, n) ==
  CASE n = "Area util" -> imovel.area_util_m2
    [] n = "Quartos"   -> imovel.quartos
    [] n = "Suites"    -> imovel.suites
    [] n = "Vagas"     -> imovel.vagas

TemObrigatorios(a) == a.preco # None /\ a.endereco # None /\ a.link # None

C5_MissingFeatureIsNA ==
  (Extraido /\ TemObrigatorios(lista_anuncios[1])) =>
    /\ exc = "none"
    /\ Len(dados_gerais_imoveis) = 1
    /\ \A n \in FeatureNames :
         Campo(dados_gerais_imoveis[1], n) =
           IF lista_anuncios[1].features = None \/ lista_anuncios[1].features[1][n] = None
           THEN NA
           ELSE TextoLimpo[n]

(***************************************************************************)
(* C6.  The persist step runs exactly once in every run with the session   *)
(* open: after the loop stops, and after a fatal fetch error at a page     *)
(* k > 1 too, the records of pages 1..k-1 being handed to it.              *)
(***************************************************************************)
C6_Original ==
  Terminou =>
    /\ exc = "none" => persist_calls = 1
    /\ (exc = "WebDriverException" /\ NumFetches > 1 /\ dados_gerais_imoveis # <<>>)
       => /\ persist_calls = 1
          /\ arquivo_csv = Some(to_csv(dados_gerais_imoveis))

\* As amended: at most once; exactly once when the loop was left by the
\* empty page or by the ceiling; not at all when an exception left the try
\* block: the script then ends after driver.quit, what was accumulated is
\* not written and the file at the target path is as it was.
C6_PersistOnlyAfterStopped ==
  /\ persist_calls <= 1
  /\ pc = "done" =>
       /\ persist_calls = 1
       /\ exc = "none"
       /\ motivo \in {"vazia", "limite"}
       /\ relatorio \in {"SUCESSO", "AVISO"}
  /\ pc = "failed" =>
       /\ persist_calls = 0
       /\ exc # "none"
       /\ motivo = "erro"
       /\ arquivo_csv = arquivo_inicial
       /\ relatorio = ""

\* The fetch of page 2 raised with records of page 1 accumulated: the run
\* ended without the persist step.
C6_Witness ==
  /\ pc = "failed"
  /\ exc = "WebDriverException"
  /\ NumFetches = 2
  /\ dados_gerais_imoveis # <<>>
  /\ persist_calls = 0

(***************************************************************************)
(* C7.  A fetched page that yields no record, by having no container or by *)
(* having all its containers skipped, stops the crawl: no page is fetched  *)
(* after it.                                                               *)
(***************************************************************************)
C7_Original ==
  \A k \in 1..(Len(paginas) - 1) : RegistrosDaPagina(k) # <<>>

TodosPulados(pagina) ==
  /\ pagina # <<>>
  /\ \A i \in 1..Len(pagina) : extrair(pagina[i]).exc = "AttributeError"

\* As amended: a page without containers stops the crawl and no page is
\* fetched after it; a page whose containers are all skipped does not: once
\* its for loop is over the page index is incremented and the loop test is
\* next.
C7_EmptyListStops ==
  /\ \A k \in 1..(Len(paginas) - 1) : paginas[k] # <<>>
  /\ (paginas # <<>> /\ paginas[Len(paginas)] = <<>>) =>
       /\ motivo = "vazia"
       /\ pc \in {"finally", "persist", "done"}
       /\ NumFetches = Len(paginas)
  /\ \A k \in 1..Len(paginas) :
       (TodosPulados(paginas[k]) /\ PaginaPercorrida(k)) =>
         /\ pagina_atual >= k + 1
         /\ (k = Len(paginas) => motivo # "vazia")

\* Page 1 had all its containers skipped, page 2 was fetched and was empty.
C7_Witness ==
  /\ pc = "done"
  /\ Len(paginas) = 2
  /\ TodosPulados(paginas[1])
  /\ paginas[2] = <<>>
  /\ motivo = "vazia"

(***************************************************************************)
(* C8.  When no fetch raises, the run makes min(k, MAX_PAGINAS) fetches, k *)
(* the index of the first page without containers, then stops, by the      *)
(* empty page if k <= MAX_PAGINAS and by the ceiling otherwise, and goes   *)
(* on to the persist step.                                                 *)
(***************************************************************************)
C8_FetchesUntilFirstEmpty ==
  (Terminou /\ exc # "WebDriverException") =>
    /\ pc = "done"
    /\ persist_calls = 1
    /\ NumFetches = Len(paginas)
    /\ \A k \in 1..(Len(paginas) - 1) : paginas[k] # <<>>
    /\ IF paginas # <<>> /\ paginas[Len(paginas)] = <<>>
       THEN motivo = "vazia" /\ NumFetches <= MAX_PAGINAS
       ELSE motivo = "limite" /\ NumFetches = MAX_PAGINAS

(***************************************************************************)
(* C9.  A run that stops with records writes them all, once each, in       *)
(* discovery order: the rows of the file are the records of the containers *)
(* that were not skipped, page after page, in document order.              *)
(***************************************************************************)
\* The records of a page's containers that extract, in document order.
RECURSIVE RegistrosEsperados(_)
RegistrosEsperados(pagina) ==
  IF pagina = <<>> THEN <<>>
  ELSE LET r == extrair(Head(pagina))
       IN  (IF r.exc = "none" THEN r.imovel ELSE <<>>) \o RegistrosEsperados(Tail(pagina))

RECURSIVE Descobertos(_)
Descobertos(ps) ==
  IF ps = <<>> THEN <<>> ELSE RegistrosEsperados(Head(ps)) \o Descobertos(Tail(ps))

NaoPulados(pagina) ==
  Cardinality({i \in 1..Len(pagina) : extrair(pagina[i]).exc = "none"})

RECURSIVE TotalNaoPulados(_)
TotalNaoPulados(ps) ==
  IF ps = <<>> THEN 0 ELSE NaoPulados(Head(ps)) + TotalNaoPulados(Tail(ps))

C9_RowsAreRecordsInOrder ==
  (pc = "done" /\ dados_gerais_imoveis # <<>>) =>
    /\ arquivo_csv # None
    /\ Len(arquivo_csv[1].rows) = TotalNaoPulados(paginas)
    /\ arquivo_csv[1].rows =
         [i \in 1..Len(Descobertos(paginas)) |->
            LET im == Descobertos(paginas)[i]
            IN  <<im.preco_anuncio, im.endereco, im.area_util_m2, im.quartos,
                  im.suites, im.vagas, im.url>>]
    /\ arquivo_csv[1].header = Colunas

\* Two pages with records, a skipped container among them, two different
\* rows written.
C9_Witness ==
  /\ pc = "done"
  /\ Len(paginas) >= 3
  /\ RegistrosDaPagina(1) # <<>>
  /\ RegistrosDaPagina(2) # <<>>
  /\ avisos >= 1
  /\ Len(arquivo_csv[1].rows) >= 2
  /\ arquivo_csv[1].rows[1] # arquivo_csv[1].rows[2]

(***************************************************************************)
(* C10.  Under SpecExtract.  The url of a record is the home page without  *)
(* its trailing slash followed by the link when the link starts with "/",  *)
(* and the link itself otherwise.                                          *)
(***************************************************************************)
HomeSemBarraFinal == SubSeq(HOME_PAGE, 1, Len(HOME_PAGE) - 1)

C10_UrlNormalised ==
  (Extraido /\ Len(dados_gerais_imoveis) = 1) =>
    LET link == lista_anuncios[1].link[1]
        url  == dados_gerais_imoveis[1].url
    IN  /\ (link # <<>> /\ link[1] = "/") => url = HomeSemBarraFinal \o link
        /\ ~(link # <<>> /\ link[1] = "/") => url = link
        /\ link = <<"/", "a">> =>
             url = <<"h", "t", "t", "p", "s", ":", "/", "/", "w", "w", "w", ".",
                     "d", "f", "i", "m", "o", "v", "e", "i", "s", ".", "c", "o",
                     "m", ".", "b", "r", "/", "a">>

\* A record made from a root-relative link.
C10_Witness ==
  /\ Extraido
  /\ Len(dados_gerais_imoveis) = 1
  /\ lista_anuncios[1].link = Some(<<"/", "a">>)
  /\ Len(dados_gerais_imoveis[1].url) = Len(HOME_PAGE) + 1

(***************************************************************************)
(* C11.  The inter-page pause is taken only between two fetches, after the *)
(* records of a page are appended and the index incremented: a run with n  *)
(* listing-page fetches takes n - 1 inter-page pauses.                     *)
(***************************************************************************)
NumPausasPagina == Cardinality({i \in 1..Len(pausas) : pausas[i] = "pagina"})

C11_Original ==
  (Terminou /\ exc = "none") => NumPausasPagina = NumFetches - 1

\* As amended: the pause is taken right after each driver.get of the loop
\* that returns, before the page is parsed: while a page is extracted its
\* pause is already taken, between the increment and the next driver.get
\* none is taken, the page without containers and the last page before the
\* ceiling have their pause too, and a run whose fetches all return takes as
\* many pauses as fetches.
C11_PauseAfterEveryFetch ==
  /\ Len(paginas) <= NumPausasPagina
  /\ NumPausasPagina <= NumFetches
  /\ exc # "WebDriverException" => NumPausasPagina = NumFetches
  /\ pc = "for" => NumPausasPagina = pagina_atual
  /\ pc \in {"while", "get"} => NumPausasPagina = pagina_atual - 1
  /\ motivo = "vazia" => NumPausasPagina = pagina_atual

\* Two fetches, the second of a page without containers, two pauses.
C11_Witness ==
  /\ pc = "done"
  /\ motivo = "vazia"
  /\ NumFetches = 2
  /\ NumPausasPagina = 2

(***************************************************************************)
(* C12.  The n-th listing-page fetch of a run targets page n: the bare     *)
(* base URL for n = 1, the base URL with ?pagina=n for n > 1; and once an  *)
(* exception is raised no further navigation is issued.                    *)
(***************************************************************************)
\* The number a decimal text denotes.
RECURSIVE ValorDecimal(_)
ValorDecimal(t) ==
  IF t = <<>> THEN 0
  ELSE 10 * ValorDecimal(SubSeq(t, 1, Len(t) - 1))
       + (CHOOSE d \in 0..9 : Digit[d + 1] = t[Len(t)])

AlvoDaPagina(url, n) ==
  IF n = 1 THEN url = URL_BASE
  ELSE /\ Len(url) > Len(URL_BASE) + 8
       /\ SubSeq(url, 1, Len(URL_BASE)) = URL_BASE
       /\ SubSeq(url, Len(URL_BASE) + 1, Len(URL_BASE) + 8) =
            <<"?", "p", "a", "g", "i", "n", "a", "=">>
       /\ \A j \in (Len(URL_BASE) + 9)..Len(url) : \E d \in 1..10 : Digit[d] = url[j]
       /\ ValorDecimal(SubSeq(url, Len(URL_BASE) + 9, Len(url))) = n

FetchesEmOrdem ==
  \A i \in 1..Len(navegacoes) :
    IF i = 1 THEN navegacoes[i] = HOME_PAGE ELSE AlvoDaPagina(navegacoes[i], i - 1)

C12_FetchesInOrder ==
  /\ []FetchesEmOrdem
  /\ [][exc # "none" => navegacoes' = navegacoes]_vars

\* The fetch of page 3 raised after pages 1 and 2 were fetched.
C12_Witness ==
  /\ pc = "failed"
  /\ exc = "WebDriverException"
  /\ Len(navegacoes) = 4
  /\ Len(paginas) = 2

(***************************************************************************)
(* C13.  A crawl that ends with nothing accumulated writes nothing: the    *)
(* file at the target path is the one the run found, none is created, and  *)
(* the persist step reports that no data was collected.                    *)
(***************************************************************************)
C13_NoWriteWhenEmpty ==
  /\ dados_gerais_imoveis = <<>> => arquivo_csv = arquivo_inicial
  /\ (pc = "done" /\ dados_gerais_imoveis = <<>>) =>
       /\ persist_calls = 1
       /\ relatorio = "AVISO"

\* Every container of the pages fetched was skipped, a file was already at
\* the target path, the persist step has run.
C13_Witness ==
  /\ pc = "done"
  /\ dados_gerais_imoveis = <<>>
  /\ avisos >= 2
  /\ arquivo_inicial = Some(ArquivoAntigo)
  /\ arquivo_csv = Some(ArquivoAntigo)
  /\ relatorio = "AVISO"

(***************************************************************************)
(* C14.  dados_gerais_imoveis is append-only: a step leaves it as it is or *)
(* adds one record at its end.  pagina_atual never decreases: it grows by  *)
(* exactly 1 when the for loop of a page with containers is over, and by   *)
(* nothing else.                                                           *)
(***************************************************************************)
PassoAppendOnly ==
  \/ dados_gerais_imoveis' = dados_gerais_imoveis
  \/ /\ Len(dados_gerais_imoveis') = Len(dados_gerais_imoveis) + 1
     /\ SubSeq(dados_gerais_imoveis', 1, Len(dados_gerais_imoveis)) = dados_gerais_imoveis

FimDoFor == pc = "for" /\ idx > Len(lista_anuncios)

PassoDoIndice ==
  /\ pagina_atual' \in {pagina_atual, pagina_atual + 1}
  /\ pagina_atual' # pagina_atual => FimDoFor /\ lista_anuncios # <<>>
  /\ FimDoFor => pagina_atual' = pagina_atual + 1

C14_AppendOnlyMonotoneIndex ==
  /\ [][PassoAppendOnly /\ PassoDoIndice]_vars
  /\ [](pc \in {"while", "get"} => pagina_atual = 1 + Len(paginas))

\* Two pages extracted, the index at 3, records and a skipped container.
C14_Witness ==
  /\ pc = "while"
  /\ pagina_atual = 3
  /\ Len(dados_gerais_imoveis) >= 2
  /\ avisos >= 1

(***************************************************************************)
(* C15.  The warm-up happens exactly once per run and is over before the   *)
(* first listing-page fetch; a run whose warm-up navigation raised fetches *)
(* no listing page.                                                        *)
(***************************************************************************)
NumAquecimentos == Cardinality({i \in 1..Len(navegacoes) : navegacoes[i] = HOME_PAGE})

NumPausasAquecimento == Cardinality({i \in 1..Len(pausas) : pausas[i] = "aquecimento"})

C15_WarmUpOnceFirst ==
  /\ NumAquecimentos <= 1
  /\ NumPausasAquecimento <= 1
  /\ pc # "aquecimento" => NumAquecimentos = 1 /\ navegacoes[1] = HOME_PAGE
  /\ pc \in {"while", "get", "for", "persist", "done"} => NumPausasAquecimento = 1
  /\ NumFetches > 0 =>
       /\ navegacoes[1] = HOME_PAGE
       /\ NumPausasAquecimento = 1
       /\ pausas[1] = "aquecimento"
  /\ (pc # "aquecimento" /\ NumPausasAquecimento = 0) =>
       /\ exc = "WebDriverException"
       /\ NumFetches = 0
       /\ paginas = <<>>

\* A run of two fetches that began with one warm-up.
C15_Witness ==
  /\ pc = "done"
  /\ NumFetches = 2
  /\ NumAquecimentos = 1
  /\ pausas[1] = "aquecimento"

(***************************************************************************)
(* C16.  Under FairSpec.  Every run terminates: the loop is left by the    *)
(* empty page, by the ceiling or by an exception, the browser session is   *)
(* released and the script ends, also when every page fetched has          *)
(* containers.                                                             *)
(***************************************************************************)
C16_Terminates == <>(Terminou /\ quit_calls = 1 /\ driver = "quit")

\* Every page up to the ceiling had containers; the run ended by the
\* ceiling.
C16_Witness ==
  /\ pc = "done"
  /\ motivo = "limite"
  /\ Len(paginas) = MAX_PAGINAS
  /\ \A k \in 1..Len(paginas) : paginas[k] # <<>>
  /\ driver = "quit"
====
